---- MODULE Spec2Model ----
(***************************************************************************)
(* Model of docker/graphiti-patch.py: the process-wide singleton           *)
(* ZepGraphiti client (module global _shared_client, its accessor, the     *)
(* FastAPI dependency get_graphiti and the startup task                    *)
(* initialize_graphiti), the client factory _create_configured_client, and *)
(* the delegate methods of ZepGraphiti that fetch and delete edges, nodes  *)
(* and episodes through the wrapped library.                               *)
(*                                                                         *)
(* Two specifications share the variables:                                 *)
(*   Spec     the singleton's life cycle under interleaved tasks;          *)
(*   SpecOps  the delegate methods running against one graph database.     *)
(***************************************************************************)
EXTENDS Integers, Sequences, FiniteSets, TLC

VARIABLES
    shared_client,   \* the module global _shared_client: NoClient or an object id
    heap,            \* every ZepGraphiti object allocated so far; its id is its index
    env,             \* what get_settings() returns if it is called now
    lib,             \* the wrapped library's default LLM configuration
    pc,              \* per task: where it stands
    held,            \* per task: the client reference it obtained (or NoClient)
    raised,          \* the error the latest access propagated to its caller ("no" if it returned)
    accesses,        \* number of calls of _get_shared_client so far
    settings_reads,  \* number of get_settings() calls made by the accessor
    create_calls,    \* number of runs of _create_configured_client
    returned,        \* every value _get_shared_client has returned
    created_with,    \* <<s>>: the settings the stored client was built from
    edges,           \* graph database: EdgeUuid -> group_id or Absent
    nodes,           \* graph database: NodeUuid -> group_id or Absent
    episodes,        \* graph database: EpisodeUuid -> group_id or Absent
    calls            \* per caller: the delegate method call it is running

clientVars == <<shared_client, heap, env, lib, pc, held, raised, accesses,
                settings_reads, create_calls, returned, created_with>>
graphVars == <<edges, nodes, episodes, calls>>
vars == <<shared_client, heap, env, lib, pc, held, raised, accesses,
          settings_reads, create_calls, returned, created_with,
          edges, nodes, episodes, calls>>

\* Python's None, as the value of a str | None field.
None == "None"

\* Python's None, as the value of a ZepGraphiti | None reference (object ids
\* are the positive integers).
NoClient == 0

\* Bound: how many times the accessor is called in one checked behaviour.
MaxAccesses == 4

-----------------------------------------------------------------------------
(* Settings, library defaults and the client factory *)

\* The settings object: the fields _create_configured_client reads.
Settings ==
    [ neo4j_uri : {"bolt://neo4j:7687"},
      neo4j_user : {"neo4j"},
      neo4j_password : {"password"},
      openai_base_url : {None, "http://ollama:11434/v1"},
      openai_api_key : {None, "", "sk-key"},
      model_name : {None, "llama3"},
      embedding_model_name : {None, "nomic-embed-text"} ]

\* The settings the environment takes while the singleton is observed: the
\* model and the key set, the base URL and the embedding model set or not.
EnvValues ==
    {s \in Settings : s.model_name = "llama3" /\ s.openai_api_key = "sk-key"}

\* The LLM configuration the library's constructor leaves when the patch
\* overrides nothing.  The source does not fix these values, so every
\* behaviour starts with one of them.
LibDefaults ==
    [ base_url : {None, "https://api.openai.com/v1"},
      api_key : {None, "sk-from-environ"} ]

\* The embedder the library's constructor installs.
DefaultEmbedder ==
    [ config |-> [ api_key |-> None, base_url |-> None,
                   embedding_model |-> "text-embedding-3-small" ] ]

\* Python truthiness of a str | None value.
Truthy(v) == v # None /\ v # ""

\* Python's `a or b`.
PyOr(a, b) == IF Truthy(a) THEN a ELSE b

\* ZepGraphiti(uri=..., user=..., password=...): llm_client is None, so the
\* library builds its default LLM client and embedder.
ZepGraphiti(uri, user, password, defaults) ==
    [ uri |-> uri, user |-> user, password |-> password,
      llm_client |-> [ model |-> "lib-default-model",
                       config |-> [ base_url |-> defaults.base_url,
                                    api_key |-> defaults.api_key,
                                    small_model |-> "lib-default-small-model" ] ],
      embedder |-> DefaultEmbedder,
      clients |-> [ embedder |-> DefaultEmbedder ],
      closed |-> FALSE ]

\* Lines 91-97: the LLM part of the configuration.
ConfigureLLM(client, settings) ==
    LET c1 == IF settings.openai_base_url # None
              THEN [client EXCEPT !.llm_client.config.base_url = settings.openai_base_url]
              ELSE client
        c2 == IF settings.openai_api_key # None
              THEN [c1 EXCEPT !.llm_client.config.api_key = settings.openai_api_key]
              ELSE c1
    IN  IF settings.model_name # None
        THEN [c2 EXCEPT !.llm_client.model = settings.model_name,
                        !.llm_client.config.small_model = settings.model_name]
        ELSE c2

\* Fault variant of NewEmbedder: the embedding model is not passed on, so the
\* embedder keeps the library's default model (the upstream defect).
NewEmbedder_KeepsDefaultModel(settings) ==
    [ config |-> [ api_key |-> PyOr(settings.openai_api_key, "ollama"),
                   base_url |-> settings.openai_base_url,
                   embedding_model |-> DefaultEmbedder.config.embedding_model ] ]

\* Lines 103-108: OpenAIEmbedder(config=OpenAIEmbedderConfig(...)).
NewEmbedder(settings) ==
    [ config |-> [ api_key |-> PyOr(settings.openai_api_key, "ollama"),
                   base_url |-> settings.openai_base_url,
                   embedding_model |-> settings.embedding_model_name ] ]

\* Lines 102-110: the embedder part of the configuration.
ConfigureEmbedder(client, settings) ==
    IF settings.embedding_model_name # None
    THEN [client EXCEPT !.embedder = NewEmbedder(settings),
                        !.clients.embedder = NewEmbedder(settings)]
    ELSE client

\* The object as it stands when OpenAIEmbedder(...) raises: constructed, its
\* LLM client configured, its embedder still the library's.
PartialClient(settings, defaults) ==
    ConfigureLLM(ZepGraphiti(settings.neo4j_uri, settings.neo4j_user,
                             settings.neo4j_password, defaults), settings)

\* _create_configured_client(settings), when nothing raises.
CreateConfiguredClient(settings, defaults) ==
    ConfigureEmbedder(PartialClient(settings, defaults), settings)

-----------------------------------------------------------------------------
(* The singleton and the tasks that reach it *)

\* Request-handling tasks run the dependency get_graphiti; the startup
\* (background) task runs initialize_graphiti.
Requests == {"request_1", "request_2"}
Startup == "startup"
Tasks == Requests \cup {Startup}

\* How one call of _get_shared_client can end: it returns, or get_settings()
\* raises, or the ZepGraphiti constructor raises, or OpenAIEmbedder raises.
Outcomes == {"ok", "settings_raise", "constructor_raise", "embedder_raise"}

\* What the heap holds for an object nothing refers to any more.
Collected == [ collected |-> TRUE ]

\* Fault variant of InitClient: the client is built when the module is imported.
InitClient_Eager ==
    /\ env \in EnvValues
    /\ lib \in LibDefaults
    /\ heap = <<CreateConfiguredClient(env, lib)>>
    /\ shared_client = 1
    /\ created_with = <<env>>
    /\ pc = [t \in Tasks |-> "idle"]
    /\ held = [t \in Tasks |-> NoClient]
    /\ raised = "no"
    /\ accesses = 0
    /\ settings_reads = 1
    /\ create_calls = 1
    /\ returned = {}

\* The state after the module is imported (line 23: _shared_client = None).
InitClient ==
    /\ env \in EnvValues
    /\ lib \in LibDefaults
    /\ heap = <<>>
    /\ shared_client = NoClient
    /\ created_with = <<>>
    /\ pc = [t \in Tasks |-> "idle"]
    /\ held = [t \in Tasks |-> NoClient]
    /\ raised = "no"
    /\ accesses = 0
    /\ settings_reads = 0
    /\ create_calls = 0
    /\ returned = {}

\* Fault variant of NeedsCreate: the None check is missing.
NeedsCreate_Always == TRUE

\* Line 118: if _shared_client is None.
NeedsCreate == shared_client = NoClient

\* Fault variant of ReadsSettings: get_settings() hoisted above the if.
ReadsSettings_Hoisted == TRUE

\* Line 119 sits inside the if: the access calls get_settings() exactly when
\* it found the slot empty.
ReadsSettings == NeedsCreate

\* Fault variant of SlotAfterCreate: the object is stored as soon as it is
\* constructed, before its embedder is configured.
SlotAfterCreate_StoreFirst(o, id) ==
    IF o \in {"ok", "embedder_raise"} THEN id ELSE shared_client

\* Line 120: the global is assigned only after _create_configured_client has
\* returned; a raise leaves it as it was.
SlotAfterCreate(o, id) ==
    IF o = "ok" THEN id ELSE shared_client

\* _get_shared_client(), called by task t and ending as o.  The function is
\* synchronous: it runs from its first line to its return (or raise) with no
\* suspension point, so it is one step.
GetSharedClient(t, o) ==
    /\ accesses < MaxAccesses
    /\ accesses' = accesses + 1
    /\ settings_reads' = IF ReadsSettings THEN settings_reads + 1 ELSE settings_reads
    /\ IF NeedsCreate
       THEN /\ o = "embedder_raise" => env.embedding_model_name # None
            /\ create_calls' = IF o = "settings_raise" THEN create_calls
                               ELSE create_calls + 1
            /\ shared_client' = SlotAfterCreate(o, Len(heap) + 1)
            /\ heap' = IF o \in {"settings_raise", "constructor_raise"}
                       THEN heap
                       ELSE Append(heap,
                              IF shared_client' # Len(heap) + 1 THEN Collected
                              ELSE IF o = "ok" THEN CreateConfiguredClient(env, lib)
                              ELSE PartialClient(env, lib))
            /\ created_with' = IF shared_client' # shared_client THEN <<env>>
                               ELSE created_with
       ELSE /\ o = "ok"
            /\ UNCHANGED <<create_calls, shared_client, heap, created_with>>
    /\ returned' = IF o = "ok" THEN returned \cup {shared_client'} ELSE returned
    /\ held' = [held EXCEPT ![t] = IF o = "ok" THEN shared_client' ELSE NoClient]
    /\ raised' = IF o = "ok" THEN "no" ELSE o

\* get_graphiti, up to its yield: the request obtains the shared client (or
\* the accessor's error propagates and the request ends).
GetGraphiti(t, o) ==
    /\ t \in Requests
    /\ pc[t] = "idle"
    /\ GetSharedClient(t, o)
    /\ pc' = [pc EXCEPT ![t] = IF o = "ok" THEN "using" ELSE "idle"]
    /\ UNCHANGED <<env, lib>>
    /\ UNCHANGED graphVars

\* Fault variant of GetGraphitiFinish: the upstream dependency, which closes
\* the client in a finally block when the request completes.
GetGraphitiFinish_Closes(t) ==
    /\ t \in Requests
    /\ pc[t] = "using"
    /\ pc' = [pc EXCEPT ![t] = "idle"]
    /\ heap' = [heap EXCEPT ![held[t]].closed = TRUE]
    /\ held' = [held EXCEPT ![t] = NoClient]
    /\ UNCHANGED <<shared_client, env, lib, raised, accesses, settings_reads,
                   create_calls, returned, created_with>>
    /\ UNCHANGED graphVars

\* get_graphiti, after its yield: the request is over and the generator
\* ends; nothing follows the yield, so the client is left as it is.
GetGraphitiFinish(t) ==
    /\ t \in Requests
    /\ pc[t] = "using"
    /\ pc' = [pc EXCEPT ![t] = "idle"]
    /\ held' = [held EXCEPT ![t] = NoClient]
    /\ UNCHANGED <<shared_client, heap, env, lib, raised, accesses, settings_reads,
                   create_calls, returned, created_with>>
    /\ UNCHANGED graphVars

\* initialize_graphiti, up to its await (line 135).
InitializeGraphiti(o) ==
    /\ pc[Startup] = "idle"
    /\ GetSharedClient(Startup, o)
    /\ pc' = [pc EXCEPT ![Startup] = IF o = "ok" THEN "building" ELSE "done"]
    /\ UNCHANGED <<env, lib>>
    /\ UNCHANGED graphVars

\* initialize_graphiti, when build_indices_and_constraints() completes
\* (line 136), normally or by raising: the task ends either way, and nothing
\* of the module is touched.
BuildIndicesDone ==
    /\ pc[Startup] = "building"
    /\ pc' = [pc EXCEPT ![Startup] = "done"]
    /\ UNCHANGED <<shared_client, heap, env, lib, held, raised, accesses,
                   settings_reads, create_calls, returned, created_with>>
    /\ UNCHANGED graphVars

\* The environment changes: a later get_settings() would return another value.
ChangeEnv ==
    /\ env' \in EnvValues \ {env}
    /\ UNCHANGED <<shared_client, heap, lib, pc, held, raised, accesses,
                   settings_reads, create_calls, returned, created_with>>
    /\ UNCHANGED graphVars

-----------------------------------------------------------------------------
(* The graph database behind self.driver, and the wrapped library's calls *)

EdgeUuids == {"e1", "e2"}
NodeUuids == {"n1"}
EpisodeUuids == {"p1"}
Groups == {"g1", "g2"}
Callers == {"caller_1", "caller_2"}

\* A uuid the graph holds no record for.
Absent == "absent"

\* The uuids of the records of `table` that belong to group g: what the
\* library's get_by_group_ids(driver, [g]) finds.
InGroup(table, g) == {u \in DOMAIN table : table[u] = g}

\* The library's errors, each with its message attribute.
EdgeNotFoundError(uuid) ==
    [ type |-> "EdgeNotFoundError", message |-> <<"edge", uuid, "not found">> ]
NodeNotFoundError(uuid) ==
    [ type |-> "NodeNotFoundError", message |-> <<"node", uuid, "not found">> ]
GroupsEdgesNotFoundError(g) ==
    [ type |-> "GroupsEdgesNotFoundError",
      message |-> <<"no edges found for group ids", g>> ]
\* Any other failure of a call into the library or the database driver.
DriverError ==
    [ type |-> "DriverError", message |-> <<"driver error">> ]

\* No exception.
NoError == [ type |-> "", message |-> <<>> ]

\* How a delegate call stands or ended.
Pending == [ kind |-> "pending", status |-> 0, detail |-> <<>>, type |-> "" ]
Returned == [ kind |-> "returned", status |-> 0, detail |-> <<>>, type |-> "" ]
\* An exception of the library leaving the method as it is.
Propagated(e) ==
    [ kind |-> "raised", status |-> 0, detail |-> e.message, type |-> e.type ]

\* raise HTTPException(status_code=..., detail=...).
HTTPException(status_code, detail) ==
    [ kind |-> "raised", status |-> status_code, detail |-> detail,
      type |-> "HTTPException" ]

\* A caller that is running no delegate method.
IdleCall ==
    [ op |-> "none", arg |-> "", pc |-> "idle",
      fetched_edges |-> {}, fetched_nodes |-> {}, fetched_episodes |-> {},
      no_edges |-> FALSE, deleted |-> <<>>, failed_at |-> "",
      lib_error |-> NoError, result |-> Pending ]

\* The graph the service starts on.
InitGraph ==
    /\ edges \in [EdgeUuids -> {"g1", Absent}]
    /\ nodes \in [NodeUuids -> Groups]
    /\ episodes \in [EpisodeUuids -> Groups]
    /\ calls = [c \in Callers |-> IdleCall]

\* A caller enters one of the delegate methods.
StartCall(c, op, arg, first) ==
    /\ calls[c].pc \in {"idle", "done", "failed"}
    /\ calls' = [calls EXCEPT ![c] = [IdleCall EXCEPT !.op = op, !.arg = arg,
                                                     !.pc = first]]
    /\ UNCHANGED <<edges, nodes, episodes>>
    /\ UNCHANGED clientVars

\* The library raised e and the call ends by the exception `result`.
Fail(call, e, result) ==
    [call EXCEPT !.failed_at = call.pc, !.pc = "failed", !.lib_error = e,
                 !.result = result]

\* An exception no except clause of the method matches leaves it unchanged.
Propagate(call, e) == Fail(call, e, Propagated(e))

\* Fault variant of NotFound: a fixed detail replaces the library's message.
NotFound_GenericDetail(call, e) ==
    Fail(call, e, HTTPException(404, <<"Not Found">>))

\* Lines 45-46, 72-73, 79-80: except ...NotFoundError as e:
\*     raise HTTPException(status_code=404, detail=e.message) from e
NotFound(call, e) == Fail(call, e, HTTPException(404, e.message))

\* save_entity_node (lines 30-39): the node is written by new_node.save,
\* unless the embedding or the save raises.
SaveEntityNode(uuid, group_id, ok) ==
    /\ nodes' = IF ok THEN [nodes EXCEPT ![uuid] = group_id] ELSE nodes
    /\ UNCHANGED <<edges, episodes, calls>>
    /\ UNCHANGED clientVars

\* get_entity_edge(uuid), lines 41-46.
GetEntityEdgeStart(c, uuid) == StartCall(c, "get_entity_edge", uuid, "get")

GetEntityEdge(c, driver_ok) ==
    /\ calls[c].op = "get_entity_edge" /\ calls[c].pc = "get"
    /\ calls' = [calls EXCEPT ![c] =
         IF ~driver_ok THEN Propagate(@, DriverError)
         ELSE IF edges[@.arg] = Absent
         THEN NotFound(@, EdgeNotFoundError(@.arg))
         ELSE [@ EXCEPT !.pc = "done", !.result = Returned]]
    /\ UNCHANGED <<edges, nodes, episodes>>
    /\ UNCHANGED clientVars

\* delete_entity_edge(uuid), lines 68-73: the fetch.
DeleteEntityEdgeStart(c, uuid) == StartCall(c, "delete_entity_edge", uuid, "get")

DeleteEntityEdgeGet(c, driver_ok) ==
    /\ calls[c].op = "delete_entity_edge" /\ calls[c].pc = "get"
    /\ calls' = [calls EXCEPT ![c] =
         IF ~driver_ok THEN Propagate(@, DriverError)
         ELSE IF edges[@.arg] = Absent
         THEN NotFound(@, EdgeNotFoundError(@.arg))
         ELSE [@ EXCEPT !.pc = "delete"]]
    /\ UNCHANGED <<edges, nodes, episodes>>
    /\ UNCHANGED clientVars

\* delete_entity_edge(uuid): the delete of the fetched edge.
DeleteEntityEdgeDelete(c, driver_ok) ==
    /\ calls[c].op = "delete_entity_edge" /\ calls[c].pc = "delete"
    /\ calls' = [calls EXCEPT ![c] =
         IF ~driver_ok THEN Propagate(@, DriverError)
         ELSE [@ EXCEPT !.pc = "done", !.result = Returned,
                        !.deleted = Append(@, <<"edge", calls[c].arg>>)]]
    /\ edges' = IF driver_ok THEN [edges EXCEPT ![calls[c].arg] = Absent] ELSE edges
    /\ UNCHANGED <<nodes, episodes>>
    /\ UNCHANGED clientVars

\* delete_episodic_node(uuid), lines 75-80: the fetch.
DeleteEpisodicNodeStart(c, uuid) == StartCall(c, "delete_episodic_node", uuid, "get")

DeleteEpisodicNodeGet(c, driver_ok) ==
    /\ calls[c].op = "delete_episodic_node" /\ calls[c].pc = "get"
    /\ calls' = [calls EXCEPT ![c] =
         IF ~driver_ok THEN Propagate(@, DriverError)
         ELSE IF episodes[@.arg] = Absent
         THEN NotFound(@, NodeNotFoundError(@.arg))
         ELSE [@ EXCEPT !.pc = "delete"]]
    /\ UNCHANGED <<edges, nodes, episodes>>
    /\ UNCHANGED clientVars

\* delete_episodic_node(uuid): the delete of the fetched episode.
DeleteEpisodicNodeDelete(c, driver_ok) ==
    /\ calls[c].op = "delete_episodic_node" /\ calls[c].pc = "delete"
    /\ calls' = [calls EXCEPT ![c] =
         IF ~driver_ok THEN Propagate(@, DriverError)
         ELSE [@ EXCEPT !.pc = "done", !.result = Returned,
                        !.deleted = Append(@, <<"episode", calls[c].arg>>)]]
    /\ episodes' = IF driver_ok THEN [episodes EXCEPT ![calls[c].arg] = Absent]
                   ELSE episodes
    /\ UNCHANGED <<edges, nodes>>
    /\ UNCHANGED clientVars

-----------------------------------------------------------------------------
(* delete_group(group_id), lines 48-66 *)

\* The uuids of one kind this call has deleted so far.
DeletedOf(call, kind) ==
    {call.deleted[i][2] : i \in {j \in DOMAIN call.deleted : call.deleted[j][1] = kind}}

\* What the three for loops (lines 59-66) still have to delete.
EdgesLeft(call) == call.fetched_edges \ DeletedOf(call, "edge")
NodesLeft(call) == call.fetched_nodes \ DeletedOf(call, "node")
EpisodesLeft(call) == call.fetched_episodes \ DeletedOf(call, "episode")

\* Fault variant of LoopAt: the node loop is placed before the edge loop.
LoopAt_NodesFirst(call) ==
    IF NodesLeft(call) # {} THEN "delete_nodes"
    ELSE IF EdgesLeft(call) # {} THEN "delete_edges"
    ELSE IF EpisodesLeft(call) # {} THEN "delete_episodes"
    ELSE "done"

\* The loop the method is in once the fetches are done: the edge loop until
\* it is exhausted, then the node loop, then the episode loop, then the end.
LoopAt(call) ==
    IF EdgesLeft(call) # {} THEN "delete_edges"
    ELSE IF NodesLeft(call) # {} THEN "delete_nodes"
    ELSE IF EpisodesLeft(call) # {} THEN "delete_episodes"
    ELSE "done"

\* The method moves to the loop it is in, or returns (None) when no loop has
\* anything left.
Advance(call) ==
    [call EXCEPT !.pc = LoopAt(call),
                 !.result = IF LoopAt(call) = "done" THEN Returned ELSE @]

\* Fault variant of OnGroupsEdgesNotFound: no except clause, the error leaves
\* the method.
OnGroupsEdgesNotFound_Propagates(call) ==
    Propagate(call, GroupsEdgesNotFoundError(call.arg))

\* Lines 51-53: the error is logged and the edge list is empty.
OnGroupsEdgesNotFound(call) ==
    [call EXCEPT !.fetched_edges = {}, !.no_edges = TRUE, !.pc = "fetch_nodes"]

\* Fault variant of OnDeleteError: the error is caught and the same item is
\* tried again.
OnDeleteError_Retries(call, e) ==
    [call EXCEPT !.lib_error = e]

\* A delete raises inside one of the loops: nothing catches it.
OnDeleteError(call, e) == Propagate(call, e)

DeleteGroupStart(c, group_id) == StartCall(c, "delete_group", group_id, "fetch_edges")

\* Lines 49-53: EntityEdge.get_by_group_ids, which raises
\* GroupsEdgesNotFoundError when the group has no edge.
DeleteGroupFetchEdges(c, driver_ok) ==
    /\ calls[c].op = "delete_group" /\ calls[c].pc = "fetch_edges"
    /\ calls' = [calls EXCEPT ![c] =
         IF ~driver_ok THEN Propagate(@, DriverError)
         ELSE IF InGroup(edges, @.arg) = {} THEN OnGroupsEdgesNotFound(@)
         ELSE [@ EXCEPT !.fetched_edges = InGroup(edges, calls[c].arg),
                        !.pc = "fetch_nodes"]]
    /\ UNCHANGED <<edges, nodes, episodes>>
    /\ UNCHANGED clientVars

\* Line 55: EntityNode.get_by_group_ids.
DeleteGroupFetchNodes(c, driver_ok) ==
    /\ calls[c].op = "delete_group" /\ calls[c].pc = "fetch_nodes"
    /\ calls' = [calls EXCEPT ![c] =
         IF ~driver_ok THEN Propagate(@, DriverError)
         ELSE [@ EXCEPT !.fetched_nodes = InGroup(nodes, calls[c].arg),
                        !.pc = "fetch_episodes"]]
    /\ UNCHANGED <<edges, nodes, episodes>>
    /\ UNCHANGED clientVars

\* Line 57: EpisodicNode.get_by_group_ids; the loops follow.
DeleteGroupFetchEpisodes(c, driver_ok) ==
    /\ calls[c].op = "delete_group" /\ calls[c].pc = "fetch_episodes"
    /\ calls' = [calls EXCEPT ![c] =
         IF ~driver_ok THEN Propagate(@, DriverError)
         ELSE LET c1 == [@ EXCEPT !.fetched_episodes = InGroup(episodes, calls[c].arg)]
              IN  Advance(c1)]
    /\ UNCHANGED <<edges, nodes, episodes>>
    /\ UNCHANGED clientVars

\* The call after it has deleted `item` in one of its loops.
AfterDelete(call, item) ==
    Advance([call EXCEPT !.deleted = Append(@, item)])

\* Lines 59-60: one pass of the edge loop.
DeleteGroupDeleteEdge(c, uuid, driver_ok) ==
    /\ calls[c].op = "delete_group" /\ calls[c].pc = "delete_edges"
    /\ uuid \in EdgesLeft(calls[c])
    /\ calls' = [calls EXCEPT ![c] =
         IF driver_ok THEN AfterDelete(@, <<"edge", uuid>>)
         ELSE OnDeleteError(@, DriverError)]
    /\ edges' = IF driver_ok THEN [edges EXCEPT ![uuid] = Absent] ELSE edges
    /\ UNCHANGED <<nodes, episodes>>
    /\ UNCHANGED clientVars

\* Lines 62-63: one pass of the node loop.
DeleteGroupDeleteNode(c, uuid, driver_ok) ==
    /\ calls[c].op = "delete_group" /\ calls[c].pc = "delete_nodes"
    /\ uuid \in NodesLeft(calls[c])
    /\ calls' = [calls EXCEPT ![c] =
         IF driver_ok THEN AfterDelete(@, <<"node", uuid>>)
         ELSE OnDeleteError(@, DriverError)]
    /\ nodes' = IF driver_ok THEN [nodes EXCEPT ![uuid] = Absent] ELSE nodes
    /\ UNCHANGED <<edges, episodes>>
    /\ UNCHANGED clientVars

\* Lines 65-66: one pass of the episode loop.
DeleteGroupDeleteEpisode(c, uuid, driver_ok) ==
    /\ calls[c].op = "delete_group" /\ calls[c].pc = "delete_episodes"
    /\ uuid \in EpisodesLeft(calls[c])
    /\ calls' = [calls EXCEPT ![c] =
         IF driver_ok THEN AfterDelete(@, <<"episode", uuid>>)
         ELSE OnDeleteError(@, DriverError)]
    /\ episodes' = IF driver_ok THEN [episodes EXCEPT ![uuid] = Absent] ELSE episodes
    /\ UNCHANGED <<edges, nodes>>
    /\ UNCHANGED clientVars

-----------------------------------------------------------------------------
(* Specifications *)

\* The graph while only the singleton is observed: one fixed content, no
\* delegate call running.
GraphAtRest ==
    /\ edges = [u \in EdgeUuids |-> "g1"]
    /\ nodes = [u \in NodeUuids |-> "g1"]
    /\ episodes = [u \in EpisodeUuids |-> "g1"]
    /\ calls = [c \in Callers |-> IdleCall]

\* The singleton while only the delegate methods are observed: the state
\* after import under one fixed environment, no task running.
ClientAtRest ==
    /\ env = [ neo4j_uri |-> "bolt://neo4j:7687", neo4j_user |-> "neo4j",
               neo4j_password |-> "password", openai_base_url |-> None,
               openai_api_key |-> None, model_name |-> None,
               embedding_model_name |-> None ]
    /\ lib = [ base_url |-> None, api_key |-> None ]
    /\ heap = <<>>
    /\ shared_client = NoClient
    /\ created_with = <<>>
    /\ pc = [t \in Tasks |-> "idle"]
    /\ held = [t \in Tasks |-> NoClient]
    /\ raised = "no"
    /\ accesses = 0
    /\ settings_reads = 0
    /\ create_calls = 0
    /\ returned = {}

Init == InitClient /\ GraphAtRest

Next ==
    \/ \E t \in Requests, o \in Outcomes : GetGraphiti(t, o)
    \/ \E t \in Requests : GetGraphitiFinish(t)
    \/ \E o \in Outcomes : InitializeGraphiti(o)
    \/ BuildIndicesDone
    \/ ChangeEnv

Spec == Init /\ [][Next]_vars

NextOps ==
    \/ \E u \in NodeUuids, g \in Groups, ok \in BOOLEAN : SaveEntityNode(u, g, ok)
    \/ \E c \in Callers, u \in EdgeUuids : GetEntityEdgeStart(c, u)
    \/ \E c \in Callers, ok \in BOOLEAN : GetEntityEdge(c, ok)
    \/ \E c \in Callers, u \in EdgeUuids : DeleteEntityEdgeStart(c, u)
    \/ \E c \in Callers, ok \in BOOLEAN : DeleteEntityEdgeGet(c, ok)
    \/ \E c \in Callers, ok \in BOOLEAN : DeleteEntityEdgeDelete(c, ok)
    \/ \E c \in Callers, u \in EpisodeUuids : DeleteEpisodicNodeStart(c, u)
    \/ \E c \in Callers, ok \in BOOLEAN : DeleteEpisodicNodeGet(c, ok)
    \/ \E c \in Callers, ok \in BOOLEAN : DeleteEpisodicNodeDelete(c, ok)
    \/ \E c \in Callers, g \in Groups : DeleteGroupStart(c, g)
    \/ \E c \in Callers, ok \in BOOLEAN : DeleteGroupFetchEdges(c, ok)
    \/ \E c \in Callers, ok \in BOOLEAN : DeleteGroupFetchNodes(c, ok)
    \/ \E c \in Callers, ok \in BOOLEAN : DeleteGroupFetchEpisodes(c, ok)
    \/ \E c \in Callers, u \in EdgeUuids, ok \in BOOLEAN : DeleteGroupDeleteEdge(c, u, ok)
    \/ \E c \in Callers, u \in NodeUuids, ok \in BOOLEAN : DeleteGroupDeleteNode(c, u, ok)
    \/ \E c \in Callers, u \in EpisodeUuids, ok \in BOOLEAN : DeleteGroupDeleteEpisode(c, u, ok)

InitOps == ClientAtRest /\ InitGraph

\* The factory alone: every settings value and every library default, and
\* one call of _create_configured_client on them.
InitCreate ==
    /\ env \in Settings
    /\ lib \in LibDefaults
    /\ heap = <<>>
    /\ shared_client = NoClient
    /\ created_with = <<>>
    /\ pc = [t \in Tasks |-> "idle"]
    /\ held = [t \in Tasks |-> NoClient]
    /\ raised = "no"
    /\ accesses = 0
    /\ settings_reads = 0
    /\ create_calls = 0
    /\ returned = {}
    /\ GraphAtRest

\* client = _create_configured_client(settings), returning.
CreateClient ==
    /\ heap = <<>>
    /\ heap' = <<CreateConfiguredClient(env, lib)>>
    /\ created_with' = <<env>>
    /\ create_calls' = create_calls + 1
    /\ UNCHANGED <<shared_client, env, lib, pc, held, raised, accesses,
                   settings_reads, returned>>
    /\ UNCHANGED graphVars

NextCreate == CreateClient

SpecCreate == InitCreate /\ [][NextCreate]_vars

SpecOps == InitOps /\ [][NextOps]_vars

-----------------------------------------------------------------------------
(* Properties of the singleton (specification Spec) *)

\* The objects of the heap that something still refers to.
Live == {i \in DOMAIN heap : heap[i] # Collected}

\* C1: every call of the accessor that returns yields the identical client
\* instance: all values ever returned are one object, the one in the slot, and
\* every task that holds a reference holds that one.
C1_SameInstance ==
    /\ Cardinality(returned) <= 1
    /\ returned # {} => returned = {shared_client}
    /\ \A t \in Tasks : held[t] # NoClient => held[t] = shared_client

\* C1 witness: the startup task and a request hold a client at the same time,
\* after at least three accesses.
C1_Witness ==
    /\ accesses >= 3
    /\ held[Startup] # NoClient
    /\ \E t \in Requests : held[t] # NoClient

\* C2 as stated: _create_configured_client runs at most once in the whole
\* process, and never before the first access.
C2_Original ==
    /\ create_calls <= 1
    /\ create_calls <= accesses

\* C2 amended: the factory never runs before the first access and at most once
\* per access; it runs only inside an access that found the slot empty; at most
\* one client is ever created (the factory returns at most once), and once the
\* slot is filled the factory never runs again.
C2_CreatedOnceLazily ==
    /\ [](/\ create_calls <= accesses
          /\ Cardinality(Live) <= 1
          /\ shared_client = NoClient => Live = {})
    /\ [][/\ create_calls' \in {create_calls, create_calls + 1}
          /\ create_calls' # create_calls =>
                shared_client = NoClient /\ accesses' = accesses + 1
          /\ shared_client # NoClient => create_calls' = create_calls]_vars

\* C2 witness: the factory has run twice (one failed attempt, one success) and
\* two tasks share the one client.
C2_Witness ==
    /\ create_calls = 2
    /\ shared_client # NoClient
    /\ pc[Startup] = "building"
    /\ \E t \in Requests : pc[t] = "using"

\* C3: once the slot holds a client, no step closes that client, empties the
\* slot or stores another client in it; the stored client is never closed.
C3_NeverClosedOrReplaced ==
    /\ [](shared_client # NoClient => ~heap[shared_client].closed)
    /\ [][shared_client # NoClient =>
            /\ shared_client' = shared_client
            /\ heap'[shared_client] = heap[shared_client]]_vars

\* C3 witness: the first access created the client, the requests have made at
\* least three accesses since (so one request has completed), the startup
\* task is over, and a request is still using the client.
C3_Witness ==
    /\ settings_reads = 1
    /\ create_calls = 1
    /\ accesses >= 4
    /\ pc[Startup] = "done"
    /\ \E t \in Requests : pc[t] = "using" /\ held[t] = shared_client

\* C4 as stated: the accessor calls get_settings() at most once per process.
C4_Original == settings_reads <= 1

\* C4 amended: the accessor calls get_settings() only in an access that found
\* the slot empty, once per such access, and never once a client is stored;
\* the stored client's configuration is the one built from the settings read
\* by the access that created it, whatever the settings are later.
C4_SettingsFrozen ==
    /\ [](/\ settings_reads <= accesses
          /\ shared_client # NoClient =>
                heap[shared_client] = CreateConfiguredClient(created_with[1], lib))
    /\ [][/\ settings_reads' \in {settings_reads, settings_reads + 1}
          /\ settings_reads' # settings_reads =>
                shared_client = NoClient /\ accesses' = accesses + 1
          /\ shared_client # NoClient =>
                /\ settings_reads' = settings_reads
                /\ created_with' = created_with
                /\ heap'[shared_client] = heap[shared_client]]_vars

\* C4 witness: the settings are no longer those the client was built from,
\* the accessor has been called at least twice and read the settings once,
\* and a task holds the client.
C4_Witness ==
    /\ shared_client # NoClient
    /\ settings_reads = 1
    /\ accesses >= 2
    /\ env # created_with[1]
    /\ \E t \in Tasks : held[t] = shared_client

\* C9: an access that fails leaves the slot None and its error reaches the
\* caller (who gets no client); any access that finds the slot None reads the
\* settings and, unless that read raises, runs the factory, also after a
\* failure; the slot only ever changes from None to a fully configured client.
C9_FailureLeavesSlotEmpty ==
    [][/\ (accesses' # accesses /\ shared_client = NoClient) =>
            /\ settings_reads' = settings_reads + 1
            /\ raised' # "settings_raise" => create_calls' = create_calls + 1
            /\ raised' # "no" =>
                  /\ shared_client' = NoClient
                  /\ \A t \in Tasks : held'[t] \in {held[t], NoClient}
                  /\ returned' = returned
       /\ shared_client' # shared_client =>
            /\ shared_client = NoClient
            /\ shared_client' \in DOMAIN heap'
            /\ heap'[shared_client'] = CreateConfiguredClient(env, lib)]_vars

\* C9 witness: the client exists after two failed attempts, one of them a
\* failure inside the factory.
C9_Witness ==
    /\ shared_client # NoClient
    /\ raised = "no"
    /\ settings_reads = 3
    /\ create_calls = 2

-----------------------------------------------------------------------------
(* Property of the factory (specification SpecCreate) *)

\* The client the factory returned and the settings it was given.
Made == heap[1]
Given == created_with[1]

\* C5 as stated: with an embedding model configured, the embedder uses that
\* model and the base URL and API key of the chat-model client configuration,
\* also when openai_base_url or openai_api_key is None.
C5_Original ==
    (heap # <<>> /\ Given.embedding_model_name # None) =>
        /\ Made.embedder.config.embedding_model = Given.embedding_model_name
        /\ Made.embedder.config.base_url = Made.llm_client.config.base_url
        /\ Made.embedder.config.api_key = Made.llm_client.config.api_key

\* C5 amended: with an embedding model configured, the embedder (both
\* client.embedder and client.clients.embedder) uses that model, the base URL
\* settings.openai_base_url and the key settings.openai_api_key or "ollama";
\* these are the chat-model client's base URL when openai_base_url is not None
\* and its key when openai_api_key is a non-empty string.
C5_EmbedderConfigured ==
    (heap # <<>> /\ Given.embedding_model_name # None) =>
        /\ Made.clients.embedder = Made.embedder
        /\ Made.embedder.config.embedding_model = Given.embedding_model_name
        /\ Made.embedder.config.base_url = Given.openai_base_url
        /\ Made.embedder.config.api_key =
              (IF Given.openai_api_key \in {None, ""} THEN "ollama"
               ELSE Given.openai_api_key)
        /\ Given.openai_base_url # None =>
              Made.embedder.config.base_url = Made.llm_client.config.base_url
        /\ Given.openai_api_key \notin {None, ""} =>
              Made.embedder.config.api_key = Made.llm_client.config.api_key

\* C5 witness: a client built with an embedding model, a base URL and a key.
C5_Witness ==
    /\ heap # <<>>
    /\ Given.embedding_model_name # None
    /\ Given.openai_base_url # None
    /\ Given.openai_api_key \notin {None, ""}

-----------------------------------------------------------------------------
(* Properties of the delegate methods (specification SpecOps) *)

FetchPhases == {"fetch_edges", "fetch_nodes", "fetch_episodes"}
DeletePhases == {"delete_edges", "delete_nodes", "delete_episodes"}
LookupOps == {"get_entity_edge", "delete_entity_edge", "delete_episodic_node"}

\* C6: when the library reports that the edge or the episodic node of the
\* given uuid does not exist, get_entity_edge, delete_entity_edge and
\* delete_episodic_node end in an HTTPException of status 404 whose detail is
\* the library error's message, and the call has deleted nothing.
C6_NotFoundIs404 ==
    \A c \in Callers :
        LET call == calls[c] IN
        (call.op \in LookupOps
            /\ call.lib_error.type \in {"EdgeNotFoundError", "NodeNotFoundError"}) =>
            /\ call.pc = "failed"
            /\ call.result.type = "HTTPException"
            /\ call.result.kind = "raised"
            /\ call.result.status = 404
            /\ call.result.detail = call.lib_error.message
            /\ call.lib_error.message[2] = call.arg
            /\ call.deleted = <<>>

\* C6 witness: a delete_entity_edge ended on a missing edge while a
\* delete_episodic_node ended on a missing episode.
C6_Witness ==
    \E c1, c2 \in Callers :
        /\ calls[c1].op = "delete_entity_edge"
        /\ calls[c1].lib_error.type = "EdgeNotFoundError"
        /\ calls[c2].op = "delete_episodic_node"
        /\ calls[c2].lib_error.type = "NodeNotFoundError"

\* C7: a delete_group for whose group the library reported no edges
\* (GroupsEdgesNotFoundError) does not fail on that account: the error never
\* leaves the method, the call goes on with an empty edge set, and when it
\* returns it has deleted every entity node and every episodic node the
\* library returned for the group.
C7_NoEdgesIsNotFatal ==
    \A c \in Callers :
        LET call == calls[c] IN
        call.op = "delete_group" =>
            /\ call.lib_error.type # "GroupsEdgesNotFoundError"
            /\ call.result.type # "GroupsEdgesNotFoundError"
            /\ call.no_edges =>
                /\ call.fetched_edges = {}
                /\ call.pc # "fetch_edges"
                /\ call.failed_at # "fetch_edges"
                /\ call.pc = "failed" => call.lib_error.type = "DriverError"
                /\ call.pc = "done" =>
                    /\ call.result = Returned
                    /\ DeletedOf(call, "edge") = {}
                    /\ DeletedOf(call, "node") = call.fetched_nodes
                    /\ DeletedOf(call, "episode") = call.fetched_episodes

\* C7 witness: a delete_group returned after the library reported no edges,
\* having fetched (and deleted) a node and an episode.
C7_Witness ==
    \E c \in Callers :
        /\ calls[c].op = "delete_group"
        /\ calls[c].no_edges
        /\ calls[c].pc = "done"
        /\ calls[c].fetched_nodes # {}
        /\ calls[c].fetched_episodes # {}
        /\ Len(calls[c].deleted) = 2

\* The place of a kind in the order edges, nodes, episodes.
Rank(kind) == IF kind = "edge" THEN 1 ELSE IF kind = "node" THEN 2 ELSE 3

\* C8: within one delete_group call the deletes are ordered edges, then
\* nodes, then episodes: no node is deleted before every fetched edge, and no
\* episode before every fetched node.
C8_EdgesNodesEpisodes ==
    \A c \in Callers :
        LET call == calls[c] IN
        call.op = "delete_group" =>
            /\ \A i, j \in DOMAIN call.deleted :
                  i < j => Rank(call.deleted[i][1]) <= Rank(call.deleted[j][1])
            /\ DeletedOf(call, "node") # {} =>
                  call.fetched_edges \subseteq DeletedOf(call, "edge")
            /\ DeletedOf(call, "episode") # {} =>
                  /\ call.fetched_edges \subseteq DeletedOf(call, "edge")
                  /\ call.fetched_nodes \subseteq DeletedOf(call, "node")

\* C8 witness: a delete_group returned after deleting two edges, a node and
\* an episode.
C8_Witness ==
    \E c \in Callers :
        /\ calls[c].op = "delete_group"
        /\ calls[c].pc = "done"
        /\ Cardinality(DeletedOf(calls[c], "edge")) = 2
        /\ DeletedOf(calls[c], "node") # {}
        /\ DeletedOf(calls[c], "episode") # {}

\* A call that has just been entered.
Fresh(call) ==
    /\ call.pc \in {"get", "fetch_edges"}
    /\ call.deleted = <<>>
    /\ call.lib_error = NoError

\* C10: delete_group deletes nothing before its three fetches are done, so a
\* fetch that fails (by an error other than GroupsEdgesNotFoundError) ends the
\* call with that error and with nothing deleted; a delete that fails ends the
\* call with that error in the loop it was in, items of that loop left, the
\* earlier deletes standing: the failing step changes neither the graph nor
\* the list of what was deleted, and the ended call does nothing more.
C10_FetchThenDeleteNoRollback ==
    /\ [](\A c \in Callers :
            LET call == calls[c] IN
            call.op = "delete_group" =>
                /\ call.pc \in FetchPhases => call.deleted = <<>>
                /\ call.lib_error # NoError => call.pc = "failed"
                /\ call.pc = "failed" =>
                    /\ call.result = Propagated(call.lib_error)
                    /\ call.lib_error.type = "DriverError"
                    /\ call.failed_at \in FetchPhases \cup DeletePhases
                    /\ call.failed_at \in FetchPhases => call.deleted = <<>>
                    /\ call.failed_at \in DeletePhases => LoopAt(call) = call.failed_at)
    /\ [][\A c \in Callers :
            /\ (calls[c].op = "delete_group" /\ calls[c].pc # "failed"
                    /\ calls'[c].pc = "failed") =>
                  /\ calls'[c].deleted = calls[c].deleted
                  /\ calls'[c].failed_at = calls[c].pc
                  /\ <<edges, nodes, episodes>>' = <<edges, nodes, episodes>>
            /\ (calls[c].op = "delete_group" /\ calls[c].pc = "failed") =>
                  calls'[c] = calls[c] \/ Fresh(calls'[c])]_vars

\* C10 witness: one delete_group ended in its edge loop after one of two
\* edges was deleted, another ended in its node fetch.
C10_Witness ==
    \E c1, c2 \in Callers :
        /\ calls[c1].op = "delete_group"
        /\ calls[c1].pc = "failed"
        /\ calls[c1].failed_at = "delete_edges"
        /\ Len(calls[c1].deleted) = 1
        /\ Cardinality(calls[c1].fetched_edges) = 2
        /\ calls[c2].op = "delete_group"
        /\ calls[c2].pc = "failed"
        /\ calls[c2].failed_at = "fetch_nodes"

====
